---- MODULE Spec2Model ----
(***************************************************************************)
(* Trading simulation and risk-managed order engine of leoBitto/money.     *)
(*                                                                         *)
(* The entry points of the repository are modelled, each with its own      *)
(* initial condition and its own actions over one set of variables:        *)
(*   - Spec: the Portfolio ledger (scripts/portfolio.py and the simplified *)
(*     scripts/port_alternative.py);                                       *)
(*   - SpecRisk: the RiskManager working on a loaded portfolio             *)
(*     (scripts/risk_manager.py);                                          *)
(*   - SpecBacktest: the weekly loop of run_backtest (scripts/backtest.py);*)
(*   - SpecSignals: generate_signals_df called on its own                  *)
(*     (scripts/signals.py);                                               *)
(*   - SpecWeekly: execute_weekly_trades and calculate_trade_pnl called    *)
(*     week after week (scripts/backtest.py);                              *)
(*   - SpecCycle: one execution cycle of either engine, SpecRisk and       *)
(*     SpecWeekly side by side;                                            *)
(*   - SpecStartup: the import of config.py and RiskManager.__init__,      *)
(*     followed by a validation (scripts/config.py, risk_manager.py);      *)
(*   - SpecBatch: a validation under the default limits on a portfolio     *)
(*     invested in a ticker outside the signals;                           *)
(*   - SpecExits: the exit checks of Position on loaded positions          *)
(*     (scripts/portfolio.py);                                             *)
(*   - SpecMetrics: SpecWeekly followed by calculate_trade_metrics.        *)
(*                                                                         *)
(* Prices and share counts are integers; average costs and the amounts of  *)
(* the backtest are exact fractions <<numerator, denominator>>; an         *)
(* Optional value is the empty set (None) or a singleton.                  *)
(***************************************************************************)
EXTENDS Integers, Sequences, FiniteSets, TLC

VARIABLES
    pf_impl,            \* which Portfolio class is in use: "portfolio" | "alternative" | "none"
    snapshot,           \* Portfolio._snapshot: cash_balance, total_value, positions_count
    positions,          \* Portfolio._positions: ticker -> Position
    call,               \* arguments of the last execute_trade call
    outcome,            \* how the last call or iteration ended: "ok" or the exception raised
    ncalls,             \* number of execute_trade calls made
    rm_pc,              \* RiskManager: "none" | "ready" | "validated" | "executed"
    max_positions,      \* RiskManager.max_positions
    rm_risk_pct,        \* RiskManager.max_risk_pct
    signals_df,         \* the signals handed to the last validate_signals call
    validated_orders,   \* what that call returned
    execution,          \* summary returned by execute_approved_orders
    bt_pc,              \* where the backtest side stands: "none" | "loop" | "done" | "failed"
                        \* | "ready" | "called" | "trading" | "settled"
    df_prices,          \* run_backtest: the rows get_universe_data returned
    end_dt,             \* run_backtest: end of the period
    strategy_params,    \* run_backtest: parameters handed to the strategy
    strategy_fn,        \* run_backtest / generate_signals_df: the strategy function
    start_dt,           \* run_backtest: start of the period
    bt_commission,      \* run_backtest: commission_rate
    signal_date,        \* run_backtest: the Friday of the current iteration
    week_count,         \* run_backtest: iterations started
    cash,               \* run_backtest: cash of the simulated portfolio
    bt_positions,       \* run_backtest: positions {ticker: shares}
    portfolio_history,  \* run_backtest: the equity snapshots
    trades_history,     \* run_backtest: the trades
    signals_history,    \* run_backtest: the signals of every iteration
    trade_metrics       \* run_backtest: the result of calculate_trade_metrics

ledgerVars == <<pf_impl, snapshot, positions, call, outcome, ncalls>>
riskVars == <<rm_pc, max_positions, rm_risk_pct, signals_df, validated_orders, execution>>

backtestVars == <<bt_pc, df_prices, start_dt, trade_metrics, end_dt, strategy_params, strategy_fn,
                  bt_commission, signal_date,
                  week_count, cash,
                  bt_positions, portfolio_history, trades_history, signals_history>>

vars == <<ledgerVars, riskVars, backtestVars>>

-----------------------------------------------------------------------------
(* Bounds of the model *)

Tickers == {"A", "B"}
MaxPrice == 2
MaxQty == 2
MaxCalls == 2
MaxAtr == 2
MaxMaxPositions == 2

Prices == 1..MaxPrice
Quantities == (-1)..MaxQty
Operations == {"BUY", "SELL", "HOLD"}
InitialCashes == {3, 100000}
StopLosses == {{}, {1}, {2}}
ProfitTargets == {{}, {2}}
Commissions == {0, 1}
Atrs == 0..MaxAtr
Labels == {"BUY", "SELL", "HOLD"}
TickerRank == [t \in Tickers |-> IF t = "A" THEN 1 ELSE 2]

-----------------------------------------------------------------------------
(* Optional values and exact arithmetic *)

None == {}
Some(v) == {v}
Val(o) == CHOOSE v \in o : TRUE
\* Python truthiness of an Optional[float]: None and 0 are both false.
Truthy(o) == o # {} /\ Val(o) # 0

Abs(x) == IF x < 0 THEN -x ELSE x

RECURSIVE GCD(_, _)
GCD(a, b) == IF b = 0 THEN a ELSE GCD(b, a % b)

\* The fraction n/d (d # 0) in lowest terms with a positive denominator.
Rat(n, d) ==
    LET g == GCD(Abs(n), Abs(d))
        s == IF d < 0 THEN -1 ELSE 1
    IN  <<(s * n) \div g, (s * d) \div g>>

RatOfInt(n) == <<n, 1>>

RatAdd(a, b) == Rat(a[1] * b[2] + b[1] * a[2], a[2] * b[2])
RatSub(a, b) == Rat(a[1] * b[2] - b[1] * a[2], a[2] * b[2])
RatMul(a, b) == Rat(a[1] * b[1], a[2] * b[2])
RatLeq(a, b) == a[1] * b[2] <= b[1] * a[2]
\* int() of a fraction that is not negative
RatFloor(a) == a[1] \div a[2]

RECURSIVE SumOver(_, _)
SumOver(S, f) ==
    IF S = {} THEN 0
    ELSE LET x == CHOOSE y \in S : TRUE IN f[x] + SumOver(S \ {x}, f)

-----------------------------------------------------------------------------
(* scripts/portfolio.py: Position and Portfolio *)

Position(shares, avg_cost, current_price, stop_loss, profit_target) ==
    [shares |-> shares, avg_cost |-> avg_cost, current_price |-> current_price,
     stop_loss |-> stop_loss, profit_target |-> profit_target,
     breakeven |-> None, entry_atr |-> None, first_half_sold |-> FALSE,
     first_target |-> None]

get_current_value(pos) == pos.current_price * pos.shares

get_positions_count(poss) ==
    Cardinality({t \in DOMAIN poss : poss[t].shares > 0})

get_position(poss, ticker) ==
    IF ticker \in DOMAIN poss THEN Some(poss[ticker]) ELSE None

SetPosition(poss, ticker, pos) ==
    [t \in DOMAIN poss \cup {ticker} |-> IF t = ticker THEN pos ELSE poss[t]]

\* Portfolio._add_or_update_position; raised is TRUE when the average-cost
\* division is by zero (a BUY whose quantity cancels the shares held).
_add_or_update_position(poss, ticker, quantity, price, stop_loss, profit_target) ==
    IF ticker \in DOMAIN poss /\ poss[ticker].shares > 0
    THEN LET existing == poss[ticker]
             new_shares == existing.shares + quantity
         IN  IF new_shares = 0
             THEN [raised |-> TRUE, positions |-> poss]
             ELSE [raised |-> FALSE,
                   positions |-> [poss EXCEPT ![ticker] =
                       [existing EXCEPT
                          !.shares = new_shares,
                          !.avg_cost = Rat(existing.shares * existing.avg_cost[1]
                                             + quantity * price * existing.avg_cost[2],
                                           existing.avg_cost[2] * new_shares),
                          !.current_price = price,
                          !.stop_loss = IF stop_loss # None THEN stop_loss ELSE @,
                          !.profit_target = IF profit_target # None THEN profit_target ELSE @]]]
    ELSE [raised |-> FALSE,
          positions |-> SetPosition(poss, ticker,
                           Position(quantity, RatOfInt(price), price, stop_loss, profit_target))]

_recalculate_total_value(snap, poss) ==
    LET open == {t \in DOMAIN poss : poss[t].shares > 0}
        value == [t \in open |-> get_current_value(poss[t])]
    IN  [snap EXCEPT !.total_value = snap.cash_balance + SumOver(open, value),
                     !.positions_count = get_positions_count(poss)]

\* Trade._validate_trade_data, for the arguments execute_trade can vary.
_validate_trade_data(quantity, price, commission) ==
    quantity > 0 /\ price > 0 /\ commission >= 0

Ended(snap, poss, how) == [snapshot |-> snap, positions |-> poss, outcome |-> how]

\* The tail of Portfolio.execute_trade, from the recalculation on.
AfterTrade(snap, poss, operation, quantity, price, commission, db_ok) ==
    LET snap2 == _recalculate_total_value(snap, poss)
    IN  IF ~_validate_trade_data(quantity, price, commission)
        THEN Ended(snap2, poss, "ValueError")
        ELSE IF ~db_ok
        THEN Ended(snap2, poss, "DatabaseError")
        ELSE IF operation = "BUY"
        THEN Ended(snap2, poss, "UnboundLocalError")
        ELSE Ended(snap2, poss, "ok")

\* The share check with the comparison of the quantity forgotten.
InsufficientShares_NoQuantityCheck(poss, ticker, quantity) ==
    ticker \notin DOMAIN poss

\* The share check of a SELL in Portfolio.execute_trade:
\* not existing_position or existing_position.shares < quantity.
InsufficientShares(poss, ticker, quantity) ==
    ticker \notin DOMAIN poss \/ poss[ticker].shares < quantity

\* Portfolio.execute_trade.  close is the universe price of the ticker at
\* the portfolio date (None when the table has no row), db_ok whether the
\* writes to the database succeed.
execute_trade(snap, poss, ticker, operation, quantity, stop_loss, profit_target, commission, close, db_ok) ==
    IF operation \notin {"BUY", "SELL"} THEN Ended(snap, poss, "ValueError")
    ELSE IF close = None THEN Ended(snap, poss, "PriceNotFoundError")
    ELSE
    LET current_price == Val(close)
        total == current_price * quantity
    IN  IF operation = "BUY"
        THEN IF total > snap.cash_balance
             THEN Ended(snap, poss, "InsufficientCashError")
             ELSE LET snap1 == [snap EXCEPT !.cash_balance = @ - total]
                      upd == _add_or_update_position(poss, ticker, quantity,
                                 current_price, stop_loss, profit_target)
                  IN  IF upd.raised
                      THEN Ended(snap1, poss, "ZeroDivisionError")
                      ELSE AfterTrade(snap1, upd.positions, operation, quantity,
                                      current_price, commission, db_ok)
        ELSE IF InsufficientShares(poss, ticker, quantity)
             THEN Ended(snap, poss, "InsufficientSharesError")
             ELSE LET snap1 == [snap EXCEPT !.cash_balance = @ + total]
                      left == poss[ticker].shares - quantity
                      sold == [poss[ticker] EXCEPT
                                 !.shares = left,
                                 !.current_price = current_price,
                                 !.stop_loss = IF left = 0 THEN None ELSE @,
                                 !.profit_target = IF left = 0 THEN None ELSE @]
                  IN  AfterTrade(snap1, [poss EXCEPT ![ticker] = sold], operation,
                                 quantity, current_price, commission, db_ok)

-----------------------------------------------------------------------------
(* scripts/port_alternative.py: the simplified Portfolio *)

alt_add_or_update_position(poss, ticker, quantity, price, stop_loss, profit_target) ==
    IF ticker \in DOMAIN poss
    THEN LET pos == poss[ticker]
             new_shares == pos.shares + quantity
         IN  IF new_shares = 0
             THEN [raised |-> TRUE, positions |-> poss]
             ELSE [raised |-> FALSE,
                   positions |-> [poss EXCEPT ![ticker] =
                       [pos EXCEPT
                          !.shares = new_shares,
                          !.avg_cost = Rat(pos.shares * pos.avg_cost[1]
                                             + quantity * price * pos.avg_cost[2],
                                           pos.avg_cost[2] * new_shares),
                          !.stop_loss = IF stop_loss # None THEN stop_loss ELSE @,
                          !.profit_target = IF profit_target # None THEN profit_target ELSE @]]]
    ELSE [raised |-> FALSE,
          positions |-> SetPosition(poss, ticker,
                           Position(quantity, RatOfInt(price), price, stop_loss, profit_target))]

\* Portfolio.execute_trade of port_alternative.py: the price is an argument,
\* total_value stays the initial cash, nothing is validated or saved.
alt_execute_trade(snap, poss, ticker, operation, quantity, price, stop_loss, profit_target) ==
    IF operation \notin {"BUY", "SELL"} THEN Ended(snap, poss, "ValueError")
    ELSE
    LET total_cost == price * quantity
    IN  IF operation = "BUY"
        THEN IF total_cost > snap.cash_balance
             THEN Ended(snap, poss, "ValueError")
             ELSE LET snap1 == [snap EXCEPT !.cash_balance = @ - total_cost]
                      upd == alt_add_or_update_position(poss, ticker, quantity, price,
                                                        stop_loss, profit_target)
                  IN  IF upd.raised
                      THEN Ended(snap1, poss, "ZeroDivisionError")
                      ELSE Ended([snap1 EXCEPT !.positions_count =
                                     get_positions_count(upd.positions)],
                                 upd.positions, "ok")
        ELSE IF ticker \notin DOMAIN poss \/ poss[ticker].shares < quantity
             THEN Ended(snap, poss, "ValueError")
             ELSE LET left == poss[ticker].shares - quantity
                      sold == [poss[ticker] EXCEPT
                                 !.shares = left,
                                 !.stop_loss = IF left = 0 THEN None ELSE @,
                                 !.profit_target = IF left = 0 THEN None ELSE @]
                      poss1 == [poss EXCEPT ![ticker] = sold]
                  IN  Ended([snap EXCEPT !.cash_balance = @ + total_cost,
                                         !.positions_count = get_positions_count(poss1)],
                            poss1, "ok")

-----------------------------------------------------------------------------
(* scripts/config.py: risk parameters.  Fractions are <<numerator, denominator>>. *)

DEFAULT_RISK_PCT_PER_TRADE == <<2, 100>>
DEFAULT_MAX_POSITIONS == 5
DEFAULT_ATR_MULTIPLIER == 2
DEFAULT_CASH_BUFFER == <<10, 100>>
DEFAULT_PROFIT_RATIO == 2
MAX_SINGLE_POSITION_PCT == 20

-----------------------------------------------------------------------------
(* scripts/portfolio.py: the methods of Position and Portfolio the RiskManager uses *)

is_stop_loss_hit(pos, current_price) ==
    IF ~Truthy(pos.stop_loss) THEN FALSE ELSE current_price <= Val(pos.stop_loss)

is_profit_target_hit(pos, current_price) ==
    IF ~Truthy(pos.profit_target) \/ pos.first_half_sold THEN FALSE
    ELSE current_price >= Val(pos.profit_target)

is_breakeven_hit(pos, current_price) ==
    IF ~Truthy(pos.breakeven) THEN FALSE ELSE current_price >= Val(pos.breakeven)

\* get_available_cash that keeps no buffer: the whole cash is available.
get_available_cash_NoBuffer(snap) ==
    IF snap.cash_balance < 0 THEN <<0, 1>> ELSE <<snap.cash_balance, 1>>

\* Portfolio.get_available_cash with its default buffer_pct = DEFAULT_CASH_BUFFER * 100:
\* max(0, cash - cash * (buffer_pct / 100)), as a fraction.
get_available_cash(snap) ==
    LET total_cash == snap.cash_balance
        b == DEFAULT_CASH_BUFFER
        avail == Rat(total_cash * (b[2] - b[1]), b[2])
    IN  IF avail[1] < 0 THEN <<0, 1>> ELSE avail

-----------------------------------------------------------------------------
(* scripts/risk_manager.py *)

_calculate_2for1_targets(entry_price, atr) ==
    LET risk_distance == atr * DEFAULT_ATR_MULTIPLIER
        profit_distance == risk_distance * DEFAULT_PROFIT_RATIO
    IN  [stop_loss |-> entry_price - risk_distance,
         first_target |-> entry_price + profit_distance,
         breakeven |-> entry_price,
         entry_atr |-> atr]

\* risk_amount = total_value * (max_risk_pct / 100.0), as a fraction.
RiskAmount(total_value, max_risk_pct) ==
    Rat(total_value * max_risk_pct[1], max_risk_pct[2] * 100)

_calculate_position_size(snap, max_risk_pct, entry_price, atr) ==
    LET total_value == snap.total_value
        risk_amount == RiskAmount(total_value, max_risk_pct)
        risk_distance == atr * DEFAULT_ATR_MULTIPLIER
        shares == IF risk_distance > 0
                  THEN risk_amount[1] \div (risk_amount[2] * risk_distance)
                  ELSE 0
    IN  IF total_value <= 0
        THEN [valid |-> FALSE, reason |-> "Portfolio value zero"]
        ELSE IF risk_distance <= 0
        THEN [valid |-> FALSE, reason |-> "ATR troppo basso"]
        ELSE IF shares <= 0
        THEN [valid |-> FALSE, reason |-> "Position size troppo piccola"]
        ELSE [valid |-> TRUE, shares |-> shares, total_cost |-> shares * entry_price,
              targets |-> _calculate_2for1_targets(entry_price, atr),
              risk_amount |-> risk_amount, reason |-> ""]

Rejected(ticker, reason) ==
    [approved |-> FALSE, action |-> "BUY", ticker |-> ticker, reason |-> reason]

_validate_buy_signal(snap, max_risk_pct, signal) ==
    LET sizing == _calculate_position_size(snap, max_risk_pct, signal.price, signal.atr)
        available_cash == get_available_cash(snap)
        total_value == snap.total_value
    IN  IF ~sizing.valid THEN Rejected(signal.ticker, sizing.reason)
        ELSE IF sizing.total_cost * available_cash[2] > available_cash[1]
        THEN Rejected(signal.ticker, "Cash insufficiente")
        ELSE IF total_value > 0
                /\ sizing.total_cost * 100 > MAX_SINGLE_POSITION_PCT * total_value
        THEN Rejected(signal.ticker, "Posizione troppo grande")
        ELSE [approved |-> TRUE, action |-> "BUY", ticker |-> signal.ticker,
              shares |-> sizing.shares, price |-> signal.price,
              targets |-> sizing.targets, cost |-> sizing.total_cost,
              position_weight_pct |->
                  IF total_value > 0 THEN Rat(sizing.total_cost * 100, total_value)
                  ELSE <<0, 1>>,
              reason |-> "STRATEGY_SIGNAL"]

_validate_sell_signal(poss, signal) ==
    IF signal.ticker \notin DOMAIN poss \/ poss[signal.ticker].shares <= 0
    THEN None
    ELSE Some([action |-> "SELL", ticker |-> signal.ticker,
               shares |-> poss[signal.ticker].shares, price |-> signal.price,
               reason |-> "STRATEGY_SIGNAL",
               position_value |-> poss[signal.ticker].shares * signal.price])

\* DataFrame.sort_values(['atr', 'ticker'])
RowBefore(a, b) ==
    a.atr < b.atr \/ (a.atr = b.atr /\ TickerRank[a.ticker] < TickerRank[b.ticker])

RECURSIVE SortRows(_)
SortRows(rows) ==
    IF rows = << >> THEN << >>
    ELSE LET i == CHOOSE k \in 1..Len(rows) :
                     \A j \in 1..Len(rows) :
                        /\ j < k => RowBefore(rows[k], rows[j])
                        /\ j > k => ~RowBefore(rows[j], rows[k])
             rest == [j \in 1..(Len(rows) - 1) |-> IF j < i THEN rows[j] ELSE rows[j + 1]]
         IN  <<rows[i]>> \o SortRows(rest)

\* head() that does not cut the ranking to the free slots.
Head_NoCut(rows, n) == rows

\* DataFrame.head(n), n >= 0
Head_(rows, n) == SubSeq(rows, 1, IF n < Len(rows) THEN n ELSE Len(rows))

RECURSIVE ApprovedOf(_, _, _)
ApprovedOf(snap, max_risk_pct, rows) ==
    IF rows = << >> THEN << >>
    ELSE LET order == _validate_buy_signal(snap, max_risk_pct, Head(rows))
         IN  (IF order.approved THEN <<order>> ELSE << >>)
             \o ApprovedOf(snap, max_risk_pct, Tail(rows))

_validate_buy_signals_batch(snap, poss, max_pos, max_risk_pct, buy_signals) ==
    LET current_positions == get_positions_count(poss)
        available_slots == max_pos - current_positions
        existing_tickers == {t \in DOMAIN poss : poss[t].shares > 0}
        NotHeld(row) == row.ticker \notin existing_tickers
        new_signals == SelectSeq(buy_signals, NotHeld)
        ranked_signals == Head_(SortRows(new_signals), available_slots)
    IN  IF available_slots <= 0 THEN << >>
        ELSE IF new_signals = << >> THEN << >>
        ELSE ApprovedOf(snap, max_risk_pct, ranked_signals)

RECURSIVE SellOrdersOf(_, _)
SellOrdersOf(poss, rows) ==
    IF rows = << >> THEN << >>
    ELSE LET sell_order == _validate_sell_signal(poss, Head(rows))
         IN  (IF sell_order # None THEN <<Val(sell_order)>> ELSE << >>)
             \o SellOrdersOf(poss, Tail(rows))

validate_signals(snap, poss, max_pos, max_risk_pct, df) ==
    LET IsSell(row) == row.signal = "SELL"
        IsBuy(row) == row.signal = "BUY"
        sell_signals == SelectSeq(df, IsSell)
        buy_signals == SelectSeq(df, IsBuy)
    IN  IF df = << >> THEN << >>
        ELSE SellOrdersOf(poss, sell_signals)
             \o (IF buy_signals # << >>
                 THEN _validate_buy_signals_batch(snap, poss, max_pos, max_risk_pct, buy_signals)
                 ELSE << >>)

-----------------------------------------------------------------------------
(* scripts/strategies.py, scripts/signals.py, scripts/backtest.py *)

\* Days are numbered from a Monday: weekday 0 is Monday, 4 is Friday.
weekday(date) == date % 7

\* The next trading day with the wrap to the following week forgotten.
get_next_trading_day_NoWrap(date, target_weekday) ==
    date + (target_weekday - weekday(date))

get_next_trading_day(date, target_weekday) ==
    LET days_ahead == target_weekday - weekday(date)
    IN  date + (IF days_ahead <= 0 THEN days_ahead + 7 ELSE days_ahead)

SIGNAL_MAP == [n \in {-1, 0, 1} |-> IF n = -1 THEN "SELL" ELSE IF n = 0 THEN "HOLD" ELSE "BUY"]

\* The days the universe table can hold a row for, and the rows: the primary
\* key is (date, ticker); close is the one price column the strategies read.
DataDates == {3, 4, 7}
Keys == Tickers \X DataDates

RowsOf(f) == {[ticker |-> k[1], date |-> k[2], close |-> Val(f[k])] : k \in {x \in Keys : f[x] # None}}

UniverseTables == {RowsOf(f) : f \in [Keys -> {None} \cup {Some(p) : p \in Prices}]}

\* get_universe_data(start_date, end_date, tickers)
get_universe_data(universe, start_date, end_date) ==
    {r \in universe : start_date <= r.date /\ r.date <= end_date}

\* df.sort_values("date") of the rows of one ticker
RECURSIVE SortByDate(_)
SortByDate(rows) ==
    IF rows = {} THEN << >>
    ELSE LET r == CHOOSE x \in rows : \A y \in rows : x.date <= y.date
         IN  <<r>> \o SortByDate(rows \ {r})

\* The sum of the w closes ending at row i: rolling(w).mean() times w.
RECURSIVE RollingSum(_, _, _)
RollingSum(df, i, w) ==
    IF w = 0 THEN 0 ELSE df[i].close + RollingSum(df, i - 1, w - 1)

\* moving_average_crossover: the signal column.  A rolling mean is NaN on
\* the rows before the window fills, and a comparison with NaN is false.
moving_average_crossover(df, short_window, long_window) ==
    [i \in 1..Len(df) |->
        IF i < short_window \/ i < long_window THEN 0
        ELSE LET MA_short == RollingSum(df, i, short_window) * long_window
                 MA_long == RollingSum(df, i, long_window) * short_window
             IN  IF MA_short < MA_long THEN -1
                 ELSE IF MA_short > MA_long THEN 1
                 ELSE 0]

\* df["ticker"].unique() of rows ordered by ticker
RECURSIVE TickersInOrder(_)
TickersInOrder(S) ==
    IF S = {} THEN << >>
    ELSE LET t == CHOOSE x \in S : \A y \in S : TickerRank[x] <= TickerRank[y]
         IN  <<t>> \o TickersInOrder(S \ {t})

\* A strategy function is any callable: here moving_average_crossover, sound
\* or wrapped so that on the rows of some tickers it raises ("raises") or
\* returns a signal column of NaN only ("null").
FaultKinds == {"none", "raises", "null"}
Strategies ==
    {[name |-> "moving_average_crossover", faults |-> f] : f \in [Tickers -> FaultKinds]}
SoundStrategy == [name |-> "moving_average_crossover", faults |-> [t \in Tickers |-> "none"]]
NoStrategy == [name |-> "", faults |-> [t \in Tickers |-> "none"]]

\* strategy_fn(df_ticker, **strategy_params): raises, or returns the signal column.
ApplyStrategy(strategy, df_ticker, ticker, params) ==
    LET signal == moving_average_crossover(df_ticker, params.short_window, params.long_window)
    IN  IF strategy.faults[ticker] = "raises"
        THEN [raised |-> TRUE, signal |-> << >>]
        ELSE IF strategy.faults[ticker] = "null"
        THEN [raised |-> FALSE, signal |-> [i \in 1..Len(df_ticker) |-> None]]
        ELSE [raised |-> FALSE, signal |-> [i \in 1..Len(df_ticker) |-> Some(signal[i])]]

\* The label generate_signals_df gives one ticker: the last non-null signal of
\* the strategy, 0 when there is none or when the strategy raised.
SignalOfTicker(strategy, df, ticker, params) ==
    LET df_ticker == SortByDate({r \in df : r.ticker = ticker})
        df_with_signals == ApplyStrategy(strategy, df_ticker, ticker, params)
        NotNull(x) == x # None
        valid_signals == SelectSeq(df_with_signals.signal, NotNull)
        signal_num == IF df_with_signals.raised THEN 0
                      ELSE IF valid_signals # << >>
                      THEN Val(valid_signals[Len(valid_signals)])
                      ELSE 0
    IN  [ticker |-> ticker, signal |-> SIGNAL_MAP[signal_num]]

\* generate_signals_df without the try/except around the strategy: the first
\* exception ends the call and no label is returned.
generate_signals_df_Unguarded(strategy, df, params) ==
    LET tickers == TickersInOrder({r.ticker : r \in df})
    IN  IF \E i \in 1..Len(tickers) : strategy.faults[tickers[i]] = "raises"
        THEN << >>
        ELSE [i \in 1..Len(tickers) |-> SignalOfTicker(strategy, df, tickers[i], params)]

generate_signals_df(strategy, df, params) ==
    LET tickers == TickersInOrder({r.ticker : r \in df})
    IN  [i \in 1..Len(tickers) |-> SignalOfTicker(strategy, df, tickers[i], params)]

\* The slice taken at the execution date, the Monday after the signal date.
AvailableData_UpToExecution(df, date) == {r \in df : r.date <= date + 3}

\* The rows run_backtest hands to the signal generator:
\* df_prices[df_prices['date'] <= signal_date_str].
AvailableData(df, date) == {r \in df : r.date <= date}

\* The columns of the frame get_universe_data builds.
Columns == {"ticker", "date", "open", "high", "low", "close", "volume"}

\* dict(zip(execution_prices['ticker'], execution_prices['Open'])) of a frame
\* that carries the column 'Open'.
PriceDict(execution_prices) ==
    [t \in {r.ticker : r \in execution_prices} |->
        (CHOOSE r \in execution_prices : r.ticker = t).Open]

\* sum(shares * price_dict.get(ticker, 0) for ticker, shares in positions.items())
PositionsValue(poss, price_dict) ==
    SumOver(DOMAIN poss,
            [t \in DOMAIN poss |->
                poss[t] * (IF t \in DOMAIN price_dict THEN price_dict[t] ELSE 0)])

\* One pass of the SELL loop of execute_weekly_trades.
SellStep(st, row, price_dict, execution_date, commission_rate) ==
    LET ticker == row.ticker
    IN  IF ticker \notin DOMAIN price_dict \/ ticker \notin DOMAIN st.positions THEN st
        ELSE IF st.positions[ticker] <= 0 THEN st
        ELSE LET shares == st.positions[ticker]
                 price == price_dict[ticker]
                 gross_proceeds == shares * price
                 net_proceeds == RatMul(RatOfInt(gross_proceeds),
                                        RatSub(<<1, 1>>, commission_rate))
             IN  [trades |-> Append(st.trades,
                             [date |-> execution_date, ticker |-> ticker, action |-> "SELL",
                              shares |-> shares, price |-> price,
                              gross_amount |-> gross_proceeds,
                              commission |-> RatMul(RatOfInt(gross_proceeds), commission_rate),
                              net_amount |-> net_proceeds, pnl |-> <<0, 1>>]),
                  positions |-> [t \in DOMAIN st.positions \ {ticker} |-> st.positions[t]],
                  cash |-> RatAdd(st.cash, net_proceeds)]

\* The BUY pass that does not skip a ticker already held.
BuyStep_HeldToo(st, row, price_dict, execution_date, commission_rate, position_value) ==
    LET ticker == row.ticker
    IN  IF ticker \notin DOMAIN price_dict THEN st
        ELSE LET price == price_dict[ticker]
                 target_shares == RatFloor(Rat(position_value[1], position_value[2] * price))
                 gross_cost == target_shares * price
                 total_cost == RatMul(RatOfInt(gross_cost),
                                      RatAdd(<<1, 1>>, commission_rate))
             IN  IF RatLeq(total_cost, st.cash) /\ target_shares > 0
                 THEN [trades |-> Append(st.trades,
                                 [date |-> execution_date, ticker |-> ticker,
                                  action |-> "BUY", shares |-> target_shares,
                                  price |-> price, gross_amount |-> gross_cost,
                                  commission |-> RatMul(RatOfInt(gross_cost), commission_rate),
                                  net_amount |-> total_cost, pnl |-> <<0, 1>>]),
                       positions |-> [t \in DOMAIN st.positions \cup {ticker} |->
                                         IF t = ticker THEN target_shares
                                         ELSE st.positions[t]],
                       cash |-> RatSub(st.cash, total_cost)]
                 ELSE st

\* One pass of the BUY loop of execute_weekly_trades.
BuyStep(st, row, price_dict, execution_date, commission_rate, position_value) ==
    LET ticker == row.ticker
    IN  IF ticker \notin DOMAIN price_dict \/ ticker \in DOMAIN st.positions THEN st
        ELSE LET price == price_dict[ticker]
                 target_shares == RatFloor(Rat(position_value[1], position_value[2] * price))
                 gross_cost == target_shares * price
                 total_cost == RatMul(RatOfInt(gross_cost),
                                      RatAdd(<<1, 1>>, commission_rate))
             IN  IF RatLeq(total_cost, st.cash) /\ target_shares > 0
                 THEN [trades |-> Append(st.trades,
                                 [date |-> execution_date, ticker |-> ticker,
                                  action |-> "BUY", shares |-> target_shares,
                                  price |-> price, gross_amount |-> gross_cost,
                                  commission |-> RatMul(RatOfInt(gross_cost), commission_rate),
                                  net_amount |-> total_cost, pnl |-> <<0, 1>>]),
                       positions |-> [t \in DOMAIN st.positions \cup {ticker} |->
                                         IF t = ticker THEN target_shares
                                         ELSE st.positions[t]],
                       cash |-> RatSub(st.cash, total_cost)]
                 ELSE st

\* The first phase of execute_weekly_trades: the rows labelled SELL, in order.
RECURSIVE SellPhase(_, _, _, _, _)
SellPhase(st, rows, price_dict, execution_date, commission_rate) ==
    IF rows = << >> THEN st
    ELSE SellPhase(IF Head(rows).signal = "SELL"
                   THEN SellStep(st, Head(rows), price_dict, execution_date, commission_rate)
                   ELSE st,
                   Tail(rows), price_dict, execution_date, commission_rate)

RECURSIVE BuyRows(_, _, _, _, _, _)
BuyRows(st, rows, price_dict, execution_date, commission_rate, position_value) ==
    IF rows = << >> THEN st
    ELSE BuyRows(IF Head(rows).signal = "BUY"
                 THEN BuyStep(st, Head(rows), price_dict, execution_date, commission_rate,
                              position_value)
                 ELSE st,
                 Tail(rows), price_dict, execution_date, commission_rate, position_value)

\* A BUY phase that gives every BUY row the whole portfolio value.
BuyPhase_Undivided(st, signals, price_dict, execution_date, total_portfolio_value, commission_rate) ==
    BuyRows(st, signals, price_dict, execution_date, commission_rate, total_portfolio_value)

\* The second phase: every BUY row gets total_portfolio_value / len(buy_signals).
BuyPhase(st, signals, price_dict, execution_date, total_portfolio_value, commission_rate) ==
    LET IsBuy(row) == row.signal = "BUY"
        num_positions == Len(SelectSeq(signals, IsBuy))
    IN  IF num_positions = 0 THEN st
        ELSE BuyRows(st, signals, price_dict, execution_date, commission_rate,
                     RatMul(total_portfolio_value, <<1, num_positions>>))

\* execute_weekly_trades with the BUY phase ahead of the SELL phase.
execute_weekly_trades_BuyFirst(signals, prices_df, execution_date, current_positions, cash_, total_portfolio_value, commission_rate) ==
    LET execution_prices == {r \in prices_df : r.date = execution_date}
        price_dict == PriceDict(execution_prices)
        st0 == [trades |-> << >>, positions |-> current_positions, cash |-> cash_]
    IN  IF execution_prices = {} THEN st0
        ELSE SellPhase(BuyPhase(st0, signals, price_dict, execution_date,
                                total_portfolio_value, commission_rate),
                       signals, price_dict, execution_date, commission_rate)

\* execute_weekly_trades: (trade_records, new_positions, new_cash)
execute_weekly_trades(signals, prices_df, execution_date, current_positions, cash_, total_portfolio_value, commission_rate) ==
    LET execution_prices == {r \in prices_df : r.date = execution_date}
        price_dict == PriceDict(execution_prices)
        st0 == [trades |-> << >>, positions |-> current_positions, cash |-> cash_]
    IN  IF execution_prices = {} THEN st0
        ELSE BuyPhase(SellPhase(st0, signals, price_dict, execution_date, commission_rate),
                      signals, price_dict, execution_date, total_portfolio_value,
                      commission_rate)

\* The loop of calculate_trade_pnl; buy_trades maps a ticker to its last BUY trade.
RECURSIVE PnlLoop(_, _)
PnlLoop(trades, buy_trades) ==
    IF trades = << >> THEN << >>
    ELSE LET trade == Head(trades)
             ticker == trade.ticker
         IN  IF trade.action = "BUY"
             THEN <<trade>>
                  \o PnlLoop(Tail(trades),
                             [t \in DOMAIN buy_trades \cup {ticker} |->
                                 IF t = ticker THEN trade ELSE buy_trades[t]])
             ELSE IF ticker \in DOMAIN buy_trades
             THEN <<[trade EXCEPT !.pnl = RatSub(trade.net_amount,
                                                 buy_trades[ticker].net_amount)]>>
                  \o PnlLoop(Tail(trades),
                             [t \in DOMAIN buy_trades \ {ticker} |-> buy_trades[t]])
             ELSE <<trade>> \o PnlLoop(Tail(trades), buy_trades)

calculate_trade_pnl(trades) == PnlLoop(trades, << >>)

RatDiv(a, b) == Rat(a[1] * b[2], a[2] * b[1])

RECURSIVE PnlSum(_)
PnlSum(trades) ==
    IF trades = << >> THEN <<0, 1>> ELSE RatAdd(Head(trades).pnl, PnlSum(Tail(trades)))

NoMetrics == << >>

ZeroMetrics ==
    [num_trades |-> 0, profitable_trades |-> 0, win_rate |-> <<0, 1>>,
     avg_profit |-> <<0, 1>>, profit_factor |-> <<0, 1>>]

IsSell(trade) == trade.action = "SELL"
IsProfit(trade) == trade.pnl[1] > 0
IsLoss(trade) == trade.pnl[1] < 0

\* The metrics with the filter on the SELL trades forgotten.
calculate_trade_metrics_AllTrades(trades) ==
    IF trades = << >> THEN ZeroMetrics
    ELSE LET profitable == SelectSeq(trades, IsProfit)
             total_profits == PnlSum(profitable)
             total_losses == RatMul(<<-1, 1>>, PnlSum(SelectSeq(trades, IsLoss)))
         IN  [num_trades |-> Len(trades),
              profitable_trades |-> Len(profitable),
              win_rate |-> Rat(Len(profitable) * 100, Len(trades)),
              avg_profit |-> RatDiv(PnlSum(trades), RatOfInt(Len(trades))),
              profit_factor |-> IF total_losses[1] > 0
                                THEN RatDiv(total_profits, total_losses) ELSE <<0, 1>>]

\* calculate_trade_metrics on the trades with their pnl.
calculate_trade_metrics(trades) ==
    IF trades = << >> THEN ZeroMetrics
    ELSE LET sell_trades == SelectSeq(trades, IsSell)
         IN  IF sell_trades = << >> THEN ZeroMetrics
             ELSE LET num_trades == Len(sell_trades)
                      profitable == SelectSeq(sell_trades, IsProfit)
                      profitable_trades == Len(profitable)
                      total_profits == PnlSum(profitable)
                      total_losses == RatMul(<<-1, 1>>, PnlSum(SelectSeq(sell_trades, IsLoss)))
                  IN  [num_trades |-> num_trades,
                       profitable_trades |-> profitable_trades,
                       win_rate |-> Rat(profitable_trades * 100, num_trades),
                       avg_profit |-> RatDiv(PnlSum(sell_trades), RatOfInt(num_trades)),
                       profit_factor |-> IF total_losses[1] > 0
                                         THEN RatDiv(total_profits, total_losses)
                                         ELSE <<0, 1>>]

-----------------------------------------------------------------------------
(* The ledger as a state machine *)

NoExecution == [executed |-> << >>, errors |-> << >>]

NoCall == [ticker |-> "", operation |-> "", quantity |-> 0, price |-> None,
           commission |-> 0]

\* No backtest is running.
NoBacktest ==
    /\ bt_pc = "none"
    /\ df_prices = {}
    /\ end_dt = 0
    /\ strategy_params = << >>
    /\ strategy_fn = NoStrategy
    /\ start_dt = 0
    /\ trade_metrics = NoMetrics
    /\ bt_commission = <<0, 1>>
    /\ signal_date = 0
    /\ week_count = 0
    /\ cash = 0
    /\ bt_positions = << >>
    /\ portfolio_history = << >>
    /\ trades_history = << >>
    /\ signals_history = << >>

\* Portfolio.create / Portfolio.__init__: a new portfolio holding only cash.
InitLedger ==
    /\ pf_impl \in {"portfolio", "alternative"}
    /\ \E initial_cash \in InitialCashes :
          snapshot = [cash_balance |-> initial_cash, total_value |-> initial_cash,
                      positions_count |-> 0]
    /\ positions = << >>
    /\ call = NoCall
    /\ outcome = "none"
    /\ ncalls = 0
    /\ rm_pc = "none"
    /\ max_positions = DEFAULT_MAX_POSITIONS
    /\ rm_risk_pct = DEFAULT_RISK_PCT_PER_TRADE
    /\ signals_df = << >>
    /\ validated_orders = << >>
    /\ execution = NoExecution
    /\ NoBacktest

ExecuteTrade ==
    /\ pf_impl = "portfolio"
    /\ ncalls < MaxCalls
    /\ \E ticker \in Tickers, operation \in Operations, quantity \in Quantities,
          stop_loss \in StopLosses, profit_target \in ProfitTargets,
          commission \in Commissions, close \in {None} \cup {Some(p) : p \in Prices},
          db_ok \in BOOLEAN :
          LET r == execute_trade(snapshot, positions, ticker, operation, quantity,
                                 stop_loss, profit_target, commission, close, db_ok)
          IN  /\ snapshot' = r.snapshot
              /\ positions' = r.positions
              /\ outcome' = r.outcome
              /\ call' = [ticker |-> ticker, operation |-> operation,
                          quantity |-> quantity, price |-> close,
                          commission |-> commission]
    /\ ncalls' = ncalls + 1
    /\ UNCHANGED <<pf_impl, riskVars, backtestVars>>

AltExecuteTrade ==
    /\ pf_impl = "alternative"
    /\ ncalls < MaxCalls
    /\ \E ticker \in Tickers, operation \in Operations, quantity \in Quantities,
          price \in Prices, stop_loss \in StopLosses, profit_target \in ProfitTargets :
          LET r == alt_execute_trade(snapshot, positions, ticker, operation, quantity,
                                     price, stop_loss, profit_target)
          IN  /\ snapshot' = r.snapshot
              /\ positions' = r.positions
              /\ outcome' = r.outcome
              /\ call' = [ticker |-> ticker, operation |-> operation,
                          quantity |-> quantity, price |-> Some(price),
                          commission |-> 0]
    /\ ncalls' = ncalls + 1
    /\ UNCHANGED <<pf_impl, riskVars, backtestVars>>

NextLedger == ExecuteTrade \/ AltExecuteTrade

-----------------------------------------------------------------------------
(* The RiskManager as a state machine *)

\* Portfolio.add_position is called by execute_approved_orders and defined
\* nowhere in the repository: it is taken to be the BUY of the ledger, without
\* commission (fails when the cost exceeds the cash, otherwise debits the cash,
\* creates or updates the position and recomputes the totals).
add_position(snap, poss, ticker, shares, avg_cost, current_price) ==
    IF shares * avg_cost > snap.cash_balance
    THEN [raised |-> TRUE, snapshot |-> snap, positions |-> poss]
    ELSE LET snap1 == [snap EXCEPT !.cash_balance = @ - shares * avg_cost]
             upd == _add_or_update_position(poss, ticker, shares, current_price, None, None)
         IN  IF upd.raised
             THEN [raised |-> TRUE, snapshot |-> snap1, positions |-> poss]
             ELSE [raised |-> FALSE,
                   snapshot |-> _recalculate_total_value(snap1, upd.positions),
                   positions |-> upd.positions]

\* One pass of the loop of RiskManager.execute_approved_orders over an order.
ExecuteOrder(st, order) ==
    IF order.action = "BUY"
    THEN LET r == add_position(st.snapshot, st.positions, order.ticker, order.shares,
                               order.price, order.price)
         IN  IF r.raised
             THEN [st EXCEPT !.snapshot = r.snapshot,
                             !.errors = Append(@, [action |-> "BUY", ticker |-> order.ticker])]
             ELSE [st EXCEPT
                     !.snapshot = r.snapshot,
                     !.positions = [r.positions EXCEPT ![order.ticker] =
                         [@ EXCEPT !.stop_loss = Some(order.targets.stop_loss),
                                   !.first_target = Some(order.targets.first_target),
                                   !.breakeven = Some(order.targets.breakeven),
                                   !.entry_atr = Some(order.targets.entry_atr)]],
                     !.executed = Append(@, [action |-> "BUY", ticker |-> order.ticker,
                                             shares |-> order.shares])]
    ELSE [st EXCEPT !.executed = Append(@, [action |-> "SELL", ticker |-> order.ticker,
                                           shares |-> order.shares])]

RECURSIVE execute_approved_orders(_, _)
execute_approved_orders(st, approved_orders) ==
    IF approved_orders = << >> THEN st
    ELSE execute_approved_orders(ExecuteOrder(st, Head(approved_orders)),
                                 Tail(approved_orders))

LoadedShares == 3
LargeHolding == 50000
LoadedCashes == {4, 100000}

\* The positions a portfolio read from the database can hold for one ticker:
\* a small one with or without stop and target, or a large one.
LoadedPositions ==
    {Position(LoadedShares, RatOfInt(p), p, sl, pt) :
        p \in Prices, sl \in {None, Some(1)}, pt \in ProfitTargets}
    \cup {Position(LargeHolding, RatOfInt(1), 1, None, None)}

LoadedPortfolios ==
    UNION {[held -> LoadedPositions] : held \in SUBSET Tickers}

SignalRows(t) ==
    {[ticker |-> t, signal |-> s, price |-> p, atr |-> a] :
        s \in Labels, p \in Prices, a \in Atrs}

\* One row per ticker, in ticker order, or no row at all.
SignalFrames ==
    {<< >>} \cup {<<ra, rb>> : ra \in SignalRows("A"), rb \in SignalRows("B")}

\* RiskManager.__init__: the portfolio of the date is loaded.
InitRisk ==
    /\ pf_impl = "portfolio"
    /\ positions \in LoadedPortfolios
    /\ \E loaded_cash \in LoadedCashes :
          snapshot = _recalculate_total_value(
                        [cash_balance |-> loaded_cash, total_value |-> loaded_cash,
                         positions_count |-> 0],
                        positions)
    /\ call = NoCall
    /\ outcome = "none"
    /\ ncalls = 0
    /\ rm_pc = "ready"
    /\ max_positions \in 1..MaxMaxPositions
    /\ rm_risk_pct = DEFAULT_RISK_PCT_PER_TRADE
    /\ signals_df = << >>
    /\ validated_orders = << >>
    /\ execution = NoExecution
    /\ NoBacktest

ValidateSignals ==
    /\ rm_pc = "ready"
    /\ \E df \in SignalFrames :
          /\ signals_df' = df
          /\ validated_orders' = validate_signals(snapshot, positions, max_positions,
                                                  rm_risk_pct, df)
    /\ rm_pc' = "validated"
    /\ UNCHANGED <<ledgerVars, max_positions, rm_risk_pct, execution, backtestVars>>

\* run_full_trading_cycle with execute=True: the approved orders are executed.
ExecuteApprovedOrders ==
    /\ rm_pc = "validated"
    /\ validated_orders # << >>
    /\ LET r == execute_approved_orders(
                   [snapshot |-> snapshot, positions |-> positions,
                    executed |-> << >>, errors |-> << >>], validated_orders)
       IN  /\ snapshot' = r.snapshot
           /\ positions' = r.positions
           /\ execution' = [executed |-> r.executed, errors |-> r.errors]
    /\ rm_pc' = "executed"
    /\ UNCHANGED <<pf_impl, call, outcome, ncalls, max_positions, rm_risk_pct, signals_df,
                   validated_orders,
                   backtestVars>>

NextRisk == ValidateSignals \/ ExecuteApprovedOrders

SpecRisk == InitRisk /\ [][NextRisk]_vars

\* A portfolio that holds a large position in a ticker outside the signals.
OtherHolding == [t \in {"C"} |-> Position(LargeHolding, RatOfInt(1), 1, None, None)]

\* RiskManager.__init__ with the default limits on a portfolio invested
\* elsewhere or not at all.
InitBatch ==
    /\ pf_impl = "portfolio"
    /\ positions \in {<< >>, OtherHolding}
    /\ \E loaded_cash \in LoadedCashes :
          snapshot = _recalculate_total_value(
                        [cash_balance |-> loaded_cash, total_value |-> loaded_cash,
                         positions_count |-> 0],
                        positions)
    /\ call = NoCall
    /\ outcome = "none"
    /\ ncalls = 0
    /\ rm_pc = "ready"
    /\ max_positions = DEFAULT_MAX_POSITIONS
    /\ rm_risk_pct = DEFAULT_RISK_PCT_PER_TRADE
    /\ signals_df = << >>
    /\ validated_orders = << >>
    /\ execution = NoExecution
    /\ NoBacktest

\* One validation of a batch under the default limits, and its execution.
SpecBatch == InitBatch /\ [][NextRisk]_vars

-----------------------------------------------------------------------------
(* The start of a RiskManager: scripts/config.py is imported, which runs     *)
(* validate_config, and the constructor is called with the caller's limits   *)

\* The constants validate_config reads, as shipped.
ShippedConfig ==
    [MA_SHORT_WINDOW |-> 3, MA_LONG_WINDOW |-> 5, RSI_OVERBOUGHT |-> 70, RSI_OVERSOLD |-> 30]

\* The configurations an operator can deploy: the shipped one, or one with the
\* windows of the moving averages the wrong way round.
Configs == {ShippedConfig, [ShippedConfig EXCEPT !.MA_SHORT_WINDOW = 5]}

\* validate_config: the list of errors, as a set; not empty raises ValueError.
validate_config(cfg) ==
    (IF cfg.MA_SHORT_WINDOW >= cfg.MA_LONG_WINDOW
     THEN {"MA_SHORT_WINDOW must be less than MA_LONG_WINDOW"} ELSE {})
    \cup (IF ~(0 < cfg.RSI_OVERBOUGHT /\ cfg.RSI_OVERBOUGHT <= 100)
          THEN {"RSI_OVERBOUGHT must be between 0 and 100"} ELSE {})
    \cup (IF ~(0 <= cfg.RSI_OVERSOLD /\ cfg.RSI_OVERSOLD < 100)
          THEN {"RSI_OVERSOLD must be between 0 and 100"} ELSE {})
    \cup (IF cfg.RSI_OVERSOLD >= cfg.RSI_OVERBOUGHT
          THEN {"RSI_OVERSOLD must be less than RSI_OVERBOUGHT"} ELSE {})

\* The limits a caller can hand to RiskManager(...): the defaults, and values
\* that make no sense as a risk fraction or as a number of positions.
RiskPcts == {DEFAULT_RISK_PCT_PER_TRADE, <<0, 1>>, <<3, 2>>}
PositionLimits == {-1, 0, 1, DEFAULT_MAX_POSITIONS}

\* RiskManager.__init__: the arguments are stored as they come.
RiskManagerInit(risk_pct, limit) == [max_risk_pct |-> risk_pct, max_positions |-> limit]

\* Nothing is started yet; Portfolio.get_or_create will find a portfolio
\* with cash and no position.
InitStartup ==
    /\ pf_impl = "portfolio"
    /\ positions = << >>
    /\ \E loaded_cash \in LoadedCashes :
          snapshot = [cash_balance |-> loaded_cash, total_value |-> loaded_cash,
                      positions_count |-> 0]
    /\ call = NoCall
    /\ outcome = "none"
    /\ ncalls = 0
    /\ rm_pc = "starting"
    /\ max_positions = DEFAULT_MAX_POSITIONS
    /\ rm_risk_pct = DEFAULT_RISK_PCT_PER_TRADE
    /\ signals_df = << >>
    /\ validated_orders = << >>
    /\ execution = NoExecution
    /\ NoBacktest

\* import config; RiskManager(portfolio_name, date, max_risk_pct, max_positions)
Startup ==
    /\ rm_pc = "starting"
    /\ \E cfg \in Configs, risk_pct \in RiskPcts, limit \in PositionLimits :
          IF validate_config(cfg) # {}
          THEN /\ rm_pc' = "config_error"
               /\ outcome' = "ValueError"
               /\ UNCHANGED <<rm_risk_pct, max_positions>>
          ELSE /\ rm_pc' = "ready"
               /\ outcome' = "ok"
               /\ rm_risk_pct' = RiskManagerInit(risk_pct, limit).max_risk_pct
               /\ max_positions' = RiskManagerInit(risk_pct, limit).max_positions
    /\ UNCHANGED <<pf_impl, snapshot, positions, call, ncalls, signals_df, validated_orders,
                   execution, backtestVars>>

NextStartup == Startup \/ ValidateSignals \/ ExecuteApprovedOrders

SpecStartup == InitStartup /\ [][NextStartup]_vars

-----------------------------------------------------------------------------
(* The exit checks of Position on positions loaded from the database *)

Breakevens == {None} \cup {Some(p) : p \in Prices}

\* Positions as Portfolio._load_from_db builds them, with the columns
\* breakeven and first_half_sold.
ExitPositions ==
    {[Position(LoadedShares, RatOfInt(p), p, None, None) EXCEPT
         !.breakeven = be, !.first_half_sold = fh] :
        p \in Prices, be \in Breakevens, fh \in BOOLEAN}

InitExits ==
    /\ pf_impl = "portfolio"
    /\ positions \in UNION {[held -> ExitPositions] : held \in SUBSET Tickers}
    /\ \E loaded_cash \in LoadedCashes :
          snapshot = _recalculate_total_value(
                        [cash_balance |-> loaded_cash, total_value |-> loaded_cash,
                         positions_count |-> 0],
                        positions)
    /\ call = NoCall
    /\ outcome = "none"
    /\ ncalls = 0
    /\ rm_pc = "none"
    /\ max_positions = DEFAULT_MAX_POSITIONS
    /\ rm_risk_pct = DEFAULT_RISK_PCT_PER_TRADE
    /\ signals_df = << >>
    /\ validated_orders = << >>
    /\ execution = NoExecution
    /\ NoBacktest

\* position.is_breakeven_hit(current_price) on a position of the portfolio.
IsBreakevenHit ==
    /\ ncalls < MaxCalls
    /\ \E ticker \in DOMAIN positions, current_price \in Prices :
          /\ call' = [ticker |-> ticker, operation |-> "is_breakeven_hit", quantity |-> 0,
                      price |-> Some(current_price), commission |-> 0]
          /\ outcome' = IF is_breakeven_hit(positions[ticker], current_price)
                        THEN "True" ELSE "False"
    /\ ncalls' = ncalls + 1
    /\ UNCHANGED <<pf_impl, snapshot, positions, riskVars, backtestVars>>

NextExits == IsBreakevenHit

SpecExits == InitExits /\ [][NextExits]_vars

-----------------------------------------------------------------------------
(* run_backtest and generate_signals_df as state machines *)

StartDates == {0, 4}
EndDates == {5, 7, 12, 14}
InitialCapitals == {3, 10}
CommissionRates == {<<0, 1>>, <<1, 10>>}
StrategyParams == {[short_window |-> 1, long_window |-> 2]}

\* Neither a ledger nor a RiskManager is in use.
NoLedger ==
    /\ pf_impl = "none"
    /\ snapshot = [cash_balance |-> 0, total_value |-> 0, positions_count |-> 0]
    /\ positions = << >>
    /\ call = NoCall
    /\ outcome = "none"
    /\ ncalls = 0
    /\ rm_pc = "none"
    /\ max_positions = DEFAULT_MAX_POSITIONS
    /\ rm_risk_pct = DEFAULT_RISK_PCT_PER_TRADE
    /\ signals_df = << >>
    /\ validated_orders = << >>
    /\ execution = NoExecution

\* run_backtest up to the loop: the data of the period is loaded (no row at
\* all is a ValueError), the portfolio is the initial capital, the first
\* signal date is the next Friday after the start.
InitBacktest ==
    /\ NoLedger
    /\ end_dt \in EndDates
    /\ strategy_params \in StrategyParams
    /\ strategy_fn = SoundStrategy
    /\ bt_commission \in CommissionRates
    /\ \E initial_capital \in InitialCapitals : cash = RatOfInt(initial_capital)
    /\ start_dt \in StartDates
    /\ trade_metrics = NoMetrics
    /\ \E universe \in UniverseTables :
          df_prices = get_universe_data(universe, start_dt, end_dt)
    /\ signal_date = get_next_trading_day(start_dt, 4)
    /\ bt_pc = IF df_prices = {} THEN "failed" ELSE "loop"
    /\ week_count = 0
    /\ bt_positions = << >>
    /\ portfolio_history = << >>
    /\ trades_history = << >>
    /\ signals_history = << >>

\* The signals of one iteration of run_backtest.
WeekSignals(strategy, df, date, params) ==
    generate_signals_df(strategy, AvailableData(df, date), params)

\* The try block of one iteration of run_backtest once the signals are
\* computed, as the state it leaves and how it ended: "no_prices" (continue),
\* the exception the except clause caught, or "ok".  An exception leaves what
\* was assigned before it.  The frame has the columns of get_universe_data, so
\* execution_prices['Open'] raises KeyError once there are execution prices.
WeekBody_SnapshotFirst(st, signals_with_date, execution_prices, execution_date, commission_rate) ==
    LET st1 == [st EXCEPT !.signals_history = Append(@, signals_with_date)]
    IN  IF execution_prices = {} THEN [how |-> "no_prices", st |-> st1]
        ELSE [how |-> "KeyError",
              st |-> [st1 EXCEPT !.portfolio_history =
                         Append(@, [date |-> execution_date, cash |-> st.cash,
                                    positions_value |-> 0, total_value |-> st.cash,
                                    num_positions |-> Cardinality(DOMAIN st.positions)])]]

WeekBody(st, signals_with_date, execution_prices, execution_date, commission_rate) ==
    LET st1 == [st EXCEPT !.signals_history = Append(@, signals_with_date)]
    IN  IF execution_prices = {} THEN [how |-> "no_prices", st |-> st1]
        ELSE IF "Open" \notin Columns THEN [how |-> "KeyError", st |-> st1]
        ELSE LET price_dict == PriceDict(execution_prices)
                 total_portfolio_value ==
                     RatAdd(st.cash, RatOfInt(PositionsValue(st.positions, price_dict)))
                 r == execute_weekly_trades(signals_with_date.signals, execution_prices,
                                            execution_date, st.positions, st.cash,
                                            total_portfolio_value, commission_rate)
                 new_positions_value == RatOfInt(PositionsValue(r.positions, price_dict))
             IN  [how |-> "ok",
                  st |-> [st1 EXCEPT
                            !.positions = r.positions,
                            !.cash = r.cash,
                            !.trades_history = @ \o r.trades,
                            !.portfolio_history =
                                Append(@, [date |-> execution_date, cash |-> r.cash,
                                           positions_value |-> new_positions_value,
                                           total_value |-> RatAdd(r.cash, new_positions_value),
                                           num_positions |-> Cardinality(DOMAIN r.positions)])]]

\* One iteration of the while loop of run_backtest; outcome tells how it
\* ended.  The break is followed by what run_backtest does after the loop.
WeeklyIteration ==
    /\ bt_pc = "loop"
    /\ signal_date <= end_dt
    /\ week_count' = week_count + 1
    /\ LET execution_date == get_next_trading_day(signal_date, 0)
           available_data == AvailableData(df_prices, signal_date)
           signals_with_date == [signal_date |-> signal_date,
                                 execution_date |-> execution_date,
                                 signals |-> WeekSignals(strategy_fn, df_prices, signal_date,
                                                         strategy_params)]
           execution_prices == {r \in df_prices : r.date = execution_date}
           next_signal_date == get_next_trading_day(signal_date + 1, 4)
           st == [cash |-> cash, positions |-> bt_positions,
                  portfolio_history |-> portfolio_history,
                  trades_history |-> trades_history, signals_history |-> signals_history]
           week == WeekBody(st, signals_with_date, execution_prices, execution_date,
                            bt_commission)
       IN  IF execution_date > end_dt
           THEN /\ bt_pc' = "done"
                /\ outcome' = "break"
                /\ trades_history' = calculate_trade_pnl(trades_history)
                /\ UNCHANGED <<signal_date, signals_history, cash, bt_positions,
                               portfolio_history>>
           ELSE IF available_data = {}
           THEN /\ signal_date' = next_signal_date
                /\ outcome' = "no_data"
                /\ UNCHANGED <<bt_pc, signals_history, cash, bt_positions, portfolio_history,
                               trades_history>>
           ELSE /\ signal_date' = next_signal_date
                /\ outcome' = week.how
                /\ cash' = week.st.cash
                /\ bt_positions' = week.st.positions
                /\ portfolio_history' = week.st.portfolio_history
                /\ trades_history' = week.st.trades_history
                /\ signals_history' = week.st.signals_history
                /\ UNCHANGED bt_pc
    /\ UNCHANGED <<pf_impl, snapshot, positions, call, ncalls, riskVars, df_prices, start_dt, trade_metrics,
                   end_dt, strategy_params, strategy_fn, bt_commission>>

\* The loop ends on its condition and the results are assembled.
FinishBacktest ==
    /\ bt_pc = "loop"
    /\ signal_date > end_dt
    /\ bt_pc' = "done"
    /\ trades_history' = calculate_trade_pnl(trades_history)
    /\ UNCHANGED <<ledgerVars, riskVars, df_prices, start_dt, trade_metrics, end_dt, strategy_params,
                   strategy_fn, bt_commission, signal_date, week_count, cash, bt_positions,
                   portfolio_history, signals_history>>

NextBacktest == WeeklyIteration \/ FinishBacktest

SpecBacktest == InitBacktest /\ [][NextBacktest]_vars

\* The signal generator is about to be called on its own.
InitSignals ==
    /\ NoLedger
    /\ bt_pc = "ready"
    /\ df_prices = {}
    /\ end_dt = 0
    /\ strategy_params \in StrategyParams
    /\ strategy_fn \in Strategies
    /\ start_dt = 0
    /\ trade_metrics = NoMetrics
    /\ bt_commission = <<0, 1>>
    /\ signal_date = 0
    /\ week_count = 0
    /\ cash = 0
    /\ bt_positions = << >>
    /\ portfolio_history = << >>
    /\ trades_history = << >>
    /\ signals_history = << >>

\* generate_signals_df(strategy_fn, df, **strategy_params), called by a caller
\* whose analysis date is analysis_date.  The function takes no date and
\* raises nothing: a failure of the strategy is caught per ticker.
GenerateSignalsDf ==
    /\ bt_pc = "ready"
    /\ \E df \in UniverseTables, analysis_date \in DataDates :
          /\ df_prices' = df
          /\ signal_date' = analysis_date
          /\ signals_history' = <<[signal_date |-> analysis_date,
                                   execution_date |-> analysis_date,
                                   signals |-> generate_signals_df(strategy_fn, df,
                                                                   strategy_params)]>>
    /\ outcome' = "ok"
    /\ bt_pc' = "called"
    /\ UNCHANGED <<pf_impl, snapshot, positions, call, ncalls, riskVars, end_dt,
                   strategy_params, strategy_fn, start_dt, trade_metrics, bt_commission, week_count, cash,
                   bt_positions, portfolio_history, trades_history>>

NextSignals == GenerateSignalsDf

SpecSignals == InitSignals /\ [][NextSignals]_vars

-----------------------------------------------------------------------------
(* execute_weekly_trades called week after week, as the body of the loop of   *)
(* run_backtest calls it, on a prices frame that carries the column 'Open' it *)
(* documents                                                                  *)

\* The Mondays of the calls.
ExecutionDates == {7, 14, 21}

\* What generate_signals_df returns: one label per ticker, in ticker order.
WeeklySignalFrames ==
    {<<[ticker |-> "A", signal |-> a], [ticker |-> "B", signal |-> b]>> :
        a \in Labels, b \in Labels}

\* The rows of one date: an Open price for some of the tickers.
OpenFrames(date) ==
    {{[ticker |-> t, date |-> date, Open |-> Val(f[t])] : t \in {x \in Tickers : f[x] # None}} :
        f \in [Tickers -> {None} \cup {Some(p) : p \in Prices}]}

InitWeekly ==
    /\ NoLedger
    /\ bt_pc = "trading"
    /\ df_prices = {}
    /\ end_dt = 0
    /\ strategy_params = << >>
    /\ strategy_fn = NoStrategy
    /\ start_dt = 0
    /\ trade_metrics = NoMetrics
    /\ bt_commission \in CommissionRates
    /\ signal_date = 0
    /\ week_count = 0
    /\ \E initial_capital \in InitialCapitals : cash = RatOfInt(initial_capital)
    /\ bt_positions = << >>
    /\ portfolio_history = << >>
    /\ trades_history = << >>
    /\ signals_history = << >>

\* Steps 2 and 3 of the iteration of run_backtest: the portfolio is valued at
\* the Open prices of the execution date, execute_weekly_trades is called and
\* its trades extend trades_history.  
ExecuteWeeklyTrades ==
    /\ bt_pc = "trading"
    /\ \E execution_date \in ExecutionDates, signals \in WeeklySignalFrames :
          /\ execution_date = 7 * (week_count + 1)
          /\ \E prices_df \in OpenFrames(execution_date) :
                LET price_dict == PriceDict(prices_df)
                    total_portfolio_value ==
                        RatAdd(cash, RatOfInt(PositionsValue(bt_positions, price_dict)))
                    r == execute_weekly_trades(signals, prices_df, execution_date,
                                               bt_positions, cash, total_portfolio_value,
                                               bt_commission)
                IN  /\ call' = [signals_df |-> signals, prices_df |-> prices_df,
                                execution_date |-> execution_date,
                                current_positions |-> bt_positions, cash |-> cash,
                                total_portfolio_value |-> total_portfolio_value,
                                commission_rate |-> bt_commission]
                    /\ bt_positions' = r.positions
                    /\ cash' = r.cash
                    /\ trades_history' = trades_history \o r.trades
    /\ week_count' = week_count + 1
    /\ UNCHANGED <<pf_impl, snapshot, positions, outcome, ncalls, riskVars, bt_pc, df_prices,
                   end_dt, strategy_params, strategy_fn, start_dt, trade_metrics, bt_commission, signal_date,
                   portfolio_history, signals_history>>

\* After the last week: trades_history = calculate_trade_pnl(trades_history).
CalculateTradePnl ==
    /\ bt_pc = "trading"
    /\ trades_history' = calculate_trade_pnl(trades_history)
    /\ bt_pc' = "settled"
    /\ UNCHANGED <<ledgerVars, riskVars, df_prices, end_dt, strategy_params, strategy_fn,
                   start_dt, trade_metrics, bt_commission, signal_date, week_count, cash, bt_positions,
                   portfolio_history, signals_history>>

NextWeekly == ExecuteWeeklyTrades \/ CalculateTradePnl

SpecWeekly == InitWeekly /\ [][NextWeekly]_vars

\* The end of run_backtest: trade_metrics = calculate_trade_metrics(trades_df).
CalculateTradeMetrics ==
    /\ bt_pc = "settled"
    /\ trade_metrics' = calculate_trade_metrics(trades_history)
    /\ bt_pc' = "measured"
    /\ UNCHANGED <<ledgerVars, riskVars, df_prices, end_dt, strategy_params, strategy_fn,
                   start_dt, bt_commission, signal_date, week_count, cash, bt_positions,
                   portfolio_history, trades_history, signals_history>>

NextMetrics == NextWeekly \/ CalculateTradeMetrics

\* The weeks of trades followed by the statistics of the run.
SpecMetrics == InitWeekly /\ [][NextMetrics]_vars

\* One execution cycle of either engine: a validation of the RiskManager with
\* the execution of its orders, or a week of trades of the backtest.
SpecCycle == (InitRisk \/ InitWeekly) /\ [][NextRisk \/ NextWeekly]_vars

-----------------------------------------------------------------------------
(* Properties of the ledger *)

OpenTickers == {t \in DOMAIN positions : positions[t].shares > 0}

\* C1: cash is never negative, after every execute_trade call of any
\* sequence of BUY and SELL calls on a portfolio created with cash >= 0.
C1_CashNeverNegative == snapshot.cash_balance >= 0

\* C4: after every execute_trade of scripts/portfolio.py, total_value equals
\* the cash plus the sum over the open positions of shares times current price.
C4_TotalValueIsCashPlusPositions ==
    pf_impl = "portfolio" =>
        snapshot.total_value =
            snapshot.cash_balance
              + SumOver(OpenTickers,
                        [t \in OpenTickers |-> positions[t].shares * positions[t].current_price])

\* A call of Portfolio.execute_trade (scripts/portfolio.py) for the given
\* operation has just been made, a price was found for the ticker and the
\* database accepted the writes.
TradeCalled(operation) ==
    /\ pf_impl = "portfolio"
    /\ ncalls' = ncalls + 1
    /\ call'.operation = operation
    /\ call'.price # None
    /\ outcome' # "DatabaseError"

\* C5: a BUY of a positive quantity fails with InsufficientCash exactly when
\* quantity*price*(1+commission) > cash, leaving cash and positions unchanged;
\* otherwise it succeeds and debits that cost from the cash.
C5_BuyInsufficientCashIffCostExceedsCash ==
    [][(TradeCalled("BUY") /\ call'.quantity > 0) =>
          LET cost == call'.quantity * Val(call'.price) * (1 + call'.commission)
          IN  IF cost > snapshot.cash_balance
              THEN /\ outcome' = "InsufficientCashError"
                   /\ snapshot' = snapshot
                   /\ positions' = positions
              ELSE /\ outcome' = "ok"
                   /\ snapshot'.cash_balance = snapshot.cash_balance - cost]_vars

-----------------------------------------------------------------------------
(* Properties of the RiskManager *)

OrdersFor(ticker, action) ==
    {k \in 1..Len(validated_orders) :
        validated_orders[k].ticker = ticker /\ validated_orders[k].action = action}

RowOf(ticker) == signals_df[CHOOSE i \in 1..Len(signals_df) : signals_df[i].ticker = ticker]

\* C7: for every open position whose price of the cycle is <= its stop_loss,
\* validation emits exactly one SELL order, for all the shares held, whatever
\* the signal of the ticker is.
C7_StopLossPriority ==
    (rm_pc = "validated" /\ signals_df # << >>) =>
        \A t \in OpenTickers :
            is_stop_loss_hit(positions[t], RowOf(t).price) =>
                /\ Cardinality(OrdersFor(t, "SELL")) = 1
                /\ \A k \in OrdersFor(t, "SELL") :
                      validated_orders[k].shares = positions[t].shares

\* C8: when the price reaches the first target of a position that has not
\* sold its first half, exactly floor(shares/2) shares are sold, and once the
\* orders are executed first_half_sold is true and stop_loss = breakeven = avg_cost.
C8_TwoForOneExactness ==
    (rm_pc \in {"validated", "executed"} /\ signals_df # << >>) =>
        \A t \in OpenTickers :
            /\ (rm_pc = "validated" /\ is_profit_target_hit(positions[t], RowOf(t).price)) =>
                  /\ Cardinality(OrdersFor(t, "SELL")) = 1
                  /\ \A k \in OrdersFor(t, "SELL") :
                        validated_orders[k].shares = positions[t].shares \div 2
            /\ (rm_pc = "executed" /\ OrdersFor(t, "SELL") # {}
                  /\ Truthy(positions[t].profit_target)
                  /\ RowOf(t).price >= Val(positions[t].profit_target)) =>
                  /\ positions[t].first_half_sold
                  /\ positions[t].stop_loss = positions[t].breakeven
                  /\ positions[t].avg_cost = RatOfInt(Val(positions[t].breakeven))

ApprovedBuys == {k \in 1..Len(validated_orders) : validated_orders[k].action = "BUY"}

ExecutedBuys == {k \in 1..Len(execution.executed) : execution.executed[k].action = "BUY"}

\* C9: a validation call approves no BUY when the open positions have
\* reached max_positions and never more BUYs than max_positions minus the open
\* positions, so executing the approved orders on a portfolio within the limit
\* leaves at most max_positions open positions.
C9_PositionLimit ==
    /\ rm_pc = "validated" =>
          /\ get_positions_count(positions) >= max_positions => ApprovedBuys = {}
          /\ Cardinality(ApprovedBuys) <= max_positions - get_positions_count(positions)
                \/ ApprovedBuys = {}
    /\ rm_pc = "executed" =>
          (get_positions_count(positions) - Cardinality(ExecutedBuys) <= max_positions
              => get_positions_count(positions) <= max_positions)

\* Two BUY candidates competed for the last free slot, and the one approved
\* was executed: the portfolio is at its limit.
C9_Witness ==
    /\ rm_pc = "executed"
    /\ Len(signals_df) = 2
    /\ \A i \in 1..Len(signals_df) : signals_df[i].signal = "BUY"
    /\ Cardinality(ApprovedBuys) = 1
    /\ Cardinality(ExecutedBuys) = 1
    /\ get_positions_count(positions) = max_positions

\* C10: the shares of an approved BUY are floor(risk_amount / stop_distance)
\* with risk_amount = total_value * risk_pct_per_trade and stop_distance =
\* ATR * atr_multiplier: 500 shares for total_value 100000, risk 0.02, ATR 2.
C10_RiskBasedSizing ==
    rm_pc = "validated" =>
        \A k \in ApprovedBuys :
            LET order == validated_orders[k]
                atr == RowOf(order.ticker).atr
                risk_pct == DEFAULT_RISK_PCT_PER_TRADE
                stop_distance == atr * DEFAULT_ATR_MULTIPLIER
            IN  /\ order.shares = (snapshot.total_value * risk_pct[1])
                                     \div (risk_pct[2] * stop_distance)
                /\ (snapshot.total_value = 100000 /\ atr = 2) => order.shares = 500

-----------------------------------------------------------------------------
(* Properties of the backtest and of the signal generator *)

LaterKeys(date) == {k \in Keys : k[2] > date}

\* The history df with its rows after date replaced by the rows of f.
WithLaterRows(df, date, f) ==
    {r \in df : r.date <= date}
      \cup {[ticker |-> k[1], date |-> k[2], close |-> Val(f[k])] :
               k \in {x \in LaterKeys(date) : f[x] # None}}

\* C2: the labels an iteration of run_backtest recorded for analysis date D
\* are the labels it gives on every history that agrees with the loaded one
\* on the rows dated <= D, whatever rows dated > D that history holds.
C2_NoLookAhead ==
    \A i \in 1..Len(signals_history) :
        LET D == signals_history[i].signal_date
        IN  \A f \in [LaterKeys(D) -> {None} \cup {Some(p) : p \in Prices}] :
                WeekSignals(strategy_fn, WithLaterRows(df_prices, D, f), D, strategy_params)
                    = signals_history[i].signals

\* The Friday labelled A a BUY although the Monday row, already loaded, would
\* have made it a SELL.
C2_Witness ==
    /\ bt_pc \in {"loop", "done"}
    /\ \E i \in 1..Len(signals_history) :
          /\ signals_history[i].signal_date = 4
          /\ \E k \in 1..Len(signals_history[i].signals) :
                signals_history[i].signals[k] = [ticker |-> "A", signal |-> "BUY"]
          /\ \E r \in df_prices : r.ticker = "A" /\ r.date = 7
          /\ SignalOfTicker(strategy_fn, {r \in df_prices : r.date <= 7}, "A",
                            strategy_params).signal = "SELL"

\* C3: a call of the signal generator on a history holding a row dated after
\* the analysis date raises instead of returning signals.
C3_FutureRowsRejected ==
    (bt_pc = "called" /\ \E r \in df_prices : r.date > signal_date) =>
        (outcome # "ok" /\ signals_history = << >>)

-----------------------------------------------------------------------------

-----------------------------------------------------------------------------
(* Properties of the validation of BUY candidates *)

\* The BUY rows of the validated frame whose ticker is not held: the candidates.
BuyCandidates ==
    {i \in 1..Len(signals_df) :
        /\ signals_df[i].signal = "BUY"
        /\ ~(signals_df[i].ticker \in DOMAIN positions
               /\ positions[signals_df[i].ticker].shares > 0)}

\* C11: a BUY whose cost shares * price exceeds the cash less the cash buffer,
\* cash * (1 - DEFAULT_CASH_BUFFER), is never among the approved orders.
C11_CashBufferGuard ==
    rm_pc = "validated" =>
        \A k \in ApprovedBuys :
            LET order == validated_orders[k]
                b == DEFAULT_CASH_BUFFER
            IN  order.shares * order.price * b[2] <= snapshot.cash_balance * (b[2] - b[1])

\* A candidate that could be sized, whose cost fits the cash but not the cash
\* less the buffer, went through validation and is not among the orders.
C11_Witness ==
    /\ rm_pc = "validated"
    /\ \E i \in BuyCandidates :
          LET row == signals_df[i]
              sizing == _calculate_position_size(snapshot, DEFAULT_RISK_PCT_PER_TRADE,
                                                 row.price, row.atr)
          IN  /\ get_positions_count(positions) < max_positions
              /\ sizing.valid
              /\ sizing.total_cost <= snapshot.cash_balance
              /\ sizing.total_cost * 10 > snapshot.cash_balance * 9
              /\ OrdersFor(row.ticker, "BUY") = {}

\* available_slots of _validate_buy_signals_batch.
AvailableSlots == max_positions - get_positions_count(positions)

\* The candidates that _validate_buy_signal approves on the portfolio of the call.
PassingCandidates ==
    {i \in BuyCandidates :
        _validate_buy_signal(snapshot, DEFAULT_RISK_PCT_PER_TRADE, signals_df[i]).approved}

\* The passing candidates that rank before candidate i (lower ATR, then ticker).
PassingBefore(i) ==
    {j \in PassingCandidates : RowBefore(signals_df[j], signals_df[i])}

\* C12: when more candidates pass validation than there are free slots, the
\* approved BUYs are exactly the available_slots passing candidates of lowest
\* ATR (ties by ticker), and a passing candidate is left out only when
\* available_slots passing candidates rank before it.
C12_Ranking ==
    rm_pc = "validated" =>
        /\ (AvailableSlots > 0 /\ Cardinality(PassingCandidates) > AvailableSlots) =>
              {validated_orders[k].ticker : k \in ApprovedBuys}
                = {signals_df[i].ticker :
                      i \in {c \in PassingCandidates :
                                Cardinality(PassingBefore(c)) < AvailableSlots}}
        /\ \A i \in PassingCandidates :
              OrdersFor(signals_df[i].ticker, "BUY") = {} =>
                  Cardinality(PassingBefore(i)) >= AvailableSlots

\* C17: every BUY candidate of a validation call is in the list the call
\* returns, approved or with the reason for which it was not approved.
C17_NoSilentRejection ==
    rm_pc = "validated" =>
        \A i \in BuyCandidates :
            /\ OrdersFor(signals_df[i].ticker, "BUY") # {}
            /\ \A k \in OrdersFor(signals_df[i].ticker, "BUY") :
                  validated_orders[k].reason # ""

-----------------------------------------------------------------------------
(* Properties of one execution cycle *)

\* No SELL comes after a BUY in the sequence of the actions.
SellsFirst(actions) ==
    \A i \in 1..Len(actions), j \in 1..Len(actions) :
        (i < j /\ actions[i] = "BUY") => actions[j] # "SELL"

\* The actions of the trades of trades_history made on one execution date.
ActionsOn(date) ==
    LET OnDate(trade) == trade.date = date
        day == SelectSeq(trades_history, OnDate)
    IN  [i \in 1..Len(day) |-> day[i].action]

\* C13: in one cycle every SELL is applied before any BUY: no SELL follows a
\* BUY in the trades of one execution date, nor in the orders one validation
\* call returns, nor in the orders the RiskManager executed.
C13_SellBeforeBuy ==
    /\ \A date \in ExecutionDates : SellsFirst(ActionsOn(date))
    /\ SellsFirst([k \in 1..Len(validated_orders) |-> validated_orders[k].action])
    /\ SellsFirst([k \in 1..Len(execution.executed) |-> execution.executed[k].action])

\* A week with two trades: the SELL of the ticker held, then the BUY of the other.
C13_Witness ==
    \E date \in ExecutionDates :
        /\ Len(ActionsOn(date)) = 2
        /\ ActionsOn(date)[1] = "SELL"
        /\ ActionsOn(date)[2] = "BUY"

\* The trades of the last call of execute_weekly_trades.
LastTrades ==
    LET OnDate(trade) == trade.date = call.execution_date
    IN  SelectSeq(trades_history, OnDate)

\* The rows of the last call labelled with the signal.
RowsLabelled(signal) ==
    {i \in 1..Len(call.signals_df) : call.signals_df[i].signal = signal}

\* C18: every BUY executed in a cycle has floor((total_value / number of BUY
\* signals of the cycle) / price) shares, and every SELL signal on a ticker
\* held and priced sells all the shares of that ticker.
C18_EqualWeight ==
    (bt_pc \in {"trading", "settled"} /\ week_count > 0) =>
        LET price_dict == PriceDict(call.prices_df)
            n == Cardinality(RowsLabelled("BUY"))
        IN  /\ \A k \in 1..Len(LastTrades) :
                  LastTrades[k].action = "BUY" =>
                      LET value == call.total_portfolio_value
                      IN  /\ n > 0
                          /\ LastTrades[k].price = price_dict[LastTrades[k].ticker]
                          /\ LastTrades[k].shares
                               = value[1] \div (value[2] * n * LastTrades[k].price)
            /\ \A i \in RowsLabelled("SELL") :
                  LET ticker == call.signals_df[i].ticker
                  IN  (/\ ticker \in DOMAIN call.current_positions
                       /\ call.current_positions[ticker] > 0
                       /\ ticker \in DOMAIN price_dict) =>
                          /\ ticker \notin DOMAIN bt_positions
                          /\ \E k \in 1..Len(LastTrades) :
                                /\ LastTrades[k].action = "SELL"
                                /\ LastTrades[k].ticker = ticker
                                /\ LastTrades[k].shares = call.current_positions[ticker]

\* Two BUY signals in the cycle, both executed with half the value each.
C18_Witness ==
    /\ bt_pc = "trading"
    /\ week_count > 0
    /\ Cardinality(RowsLabelled("BUY")) = 2
    /\ Len(LastTrades) = 2
    /\ \A k \in 1..Len(LastTrades) : LastTrades[k].action = "BUY"

\* The BUY trades of the ticker of trade i recorded before it.
BuysBefore(i) ==
    {j \in 1..(i - 1) :
        /\ trades_history[j].action = "BUY"
        /\ trades_history[j].ticker = trades_history[i].ticker}

\* The average cost of the position trade i sells: the backtest buys a ticker
\* only while it is not held, so it is the price of the BUY that opened it.
AvgCostAtSale(i) ==
    trades_history[CHOOSE j \in BuysBefore(i) : \A k \in BuysBefore(i) : k <= j].price

\* C19: the PnL recorded for every SELL trade is its proceeds (what was cashed,
\* or the gross amount) minus the shares sold times the average cost of the
\* position at the time of the sale.
C19_RealizedPnlAverageCost ==
    bt_pc = "settled" =>
        \A i \in 1..Len(trades_history) :
            (trades_history[i].action = "SELL" /\ BuysBefore(i) # {}) =>
                LET trade == trades_history[i]
                    basis == RatOfInt(trade.shares * AvgCostAtSale(i))
                IN  \/ trade.pnl = RatSub(trade.net_amount, basis)
                    \/ trade.pnl = RatSub(RatOfInt(trade.gross_amount), basis)

-----------------------------------------------------------------------------
(* Properties of the weekly loop *)

\* The first day on or after date that falls on the weekday.
FirstOnOrAfter(date, target_weekday) ==
    CHOOSE d \in date..(date + 6) : weekday(d) = target_weekday

\* C14: the analysis date of an iteration is the first Friday on or after the
\* cursor (the start date itself when it is a Friday), and the execution date
\* is the first Monday strictly after the analysis date, hence later than it.
C14_WeeklySchedule ==
    /\ (bt_pc = "loop" /\ week_count = 0) => signal_date = FirstOnOrAfter(start_dt, 4)
    /\ bt_pc = "loop" => weekday(signal_date) = 4
    /\ \A i \in 1..Len(signals_history) :
          LET week == signals_history[i]
          IN  bt_pc \in {"loop", "done"} =>
                  /\ weekday(week.signal_date) = 4
                  /\ week.execution_date = FirstOnOrAfter(week.signal_date + 1, 0)
                  /\ week.execution_date > week.signal_date

\* The ways an iteration of the loop ends without an exception.
QuietEndings == {"break", "no_data", "no_prices", "ok"}

\* C15: an iteration in which a step raised leaves the cash and the positions
\* as they were, records no trade and no snapshot, and the loop goes on with
\* the following week.
C15_FailureIsolation ==
    [][(bt_pc = "loop" /\ week_count' = week_count + 1 /\ outcome' \notin QuietEndings) =>
          /\ cash' = cash
          /\ bt_positions' = bt_positions
          /\ trades_history' = trades_history
          /\ portfolio_history' = portfolio_history
          /\ bt_pc' = "loop"
          /\ signal_date' = signal_date + 7]_vars

\* An iteration ended in the except clause and the period has room for the
\* iteration that follows.
C15_Witness ==
    /\ bt_pc = "loop"
    /\ week_count > 0
    /\ outcome = "KeyError"
    /\ signal_date <= end_dt

-----------------------------------------------------------------------------
(* Properties of the signal generator under a failing strategy *)

\* The labels the last call of generate_signals_df returned.
ReturnedSignals == signals_history[1].signals

\* C16: generate_signals_df returns exactly one label for every ticker of its
\* input; a ticker on which the strategy raises or gives no non-null signal is
\* labelled HOLD, and every other ticker has the label it has when no ticker
\* fails.
C16_StrategyFailureIsolation ==
    bt_pc = "called" =>
        LET tickers == {r.ticker : r \in df_prices}
            sound == generate_signals_df(SoundStrategy, df_prices, strategy_params)
        IN  /\ Len(ReturnedSignals) = Cardinality(tickers)
            /\ \A t \in tickers :
                  Cardinality({i \in 1..Len(ReturnedSignals) :
                                  ReturnedSignals[i].ticker = t}) = 1
            /\ \A i \in 1..Len(ReturnedSignals) :
                  /\ ReturnedSignals[i].signal \in Labels
                  /\ strategy_fn.faults[ReturnedSignals[i].ticker] # "none" =>
                        ReturnedSignals[i].signal = "HOLD"
                  /\ strategy_fn.faults[ReturnedSignals[i].ticker] = "none" =>
                        ReturnedSignals[i] \in {sound[k] : k \in 1..Len(sound)}

\* The strategy raised on one ticker of the input and the other ticker got a
\* BUY or a SELL.
C16_Witness ==
    /\ bt_pc = "called"
    /\ Len(ReturnedSignals) = 2
    /\ \E i, j \in 1..2 :
          /\ strategy_fn.faults[ReturnedSignals[i].ticker] = "raises"
          /\ strategy_fn.faults[ReturnedSignals[j].ticker] = "none"
          /\ ReturnedSignals[j].signal # "HOLD"

-----------------------------------------------------------------------------
(* Properties of the start *)

-----------------------------------------------------------------------------
(* Properties of the position map *)

\* C22: only open positions are held: after a SELL of a positive quantity
\* that returned normally, the ticker sold is either gone from the
\* ticker-to-Position map or still holds shares > 0 (a SELL that brings the
\* shares to 0 removes the position).
C22_OnlyOpenPositions ==
    (outcome = "ok" /\ call # NoCall /\ call.operation = "SELL" /\ call.quantity > 0) =>
        (call.ticker \in DOMAIN positions => positions[call.ticker].shares > 0)

\* Outcomes of execute_trade reached after the position was updated.
AppliedOutcomes == {"ok", "UnboundLocalError", "DatabaseError"}

\* One call of execute_trade with a positive quantity, seen from both sides.
C23_Step ==
    (ncalls' = ncalls + 1 /\ call'.quantity > 0 /\ call'.price # None) =>
        LET t == call'.ticker
            q == call'.quantity
            p == Val(call'.price)
        IN  /\ (call'.operation = "BUY" /\ outcome' \in AppliedOutcomes) =>
                   IF t \in DOMAIN positions
                   THEN LET s == positions[t].shares
                            c == positions[t].avg_cost
                        IN  /\ positions'[t].shares = s + q
                            /\ positions'[t].avg_cost = Rat(s * c[1] + q * p * c[2], c[2] * (s + q))
                   ELSE /\ positions'[t].shares = q
                        /\ positions'[t].avg_cost = RatOfInt(p)
            /\ (call'.operation = "SELL" /\ outcome' = "ok") =>
                   positions'[t].avg_cost = positions[t].avg_cost

\* C23: volume-weighted average cost: a BUY of q > 0 shares at price p on a
\* position holding s shares at average cost c leaves s+q shares at average
\* cost (s*c + q*p)/(s+q); a first BUY sets avg_cost = p; a SELL leaves
\* avg_cost unchanged.
C23_VolumeWeightedAverageCost == [][C23_Step]_vars

-----------------------------------------------------------------------------
(* Properties of the weekly loop *)

\* One iteration of the weekly loop, seen from both sides: it either breaks
\* because the execution date is after the end, or moves the analysis date
\* strictly forward.
C24_Step ==
    (week_count' = week_count + 1) =>
        IF get_next_trading_day(signal_date, 0) > end_dt
        THEN /\ bt_pc' = "done"
             /\ signal_date' = signal_date
             /\ Len(portfolio_history') = Len(portfolio_history)
             /\ Len(trades_history') = Len(trades_history)
             /\ Len(signals_history') = Len(signals_history)
        ELSE /\ bt_pc' = "loop"
             /\ signal_date <= end_dt
             /\ signal_date' > signal_date

\* Nothing recorded by the loop is dated after the end of the run, and the
\* iterations are at most one per week of the run.
C24_NothingAfterEnd ==
    /\ week_count > 0 => 7 * (week_count - 1) < end_dt - start_dt
    /\ \A i \in DOMAIN portfolio_history : portfolio_history[i].date <= end_dt
    /\ \A i \in DOMAIN trades_history : trades_history[i].date <= end_dt
    /\ \A i \in DOMAIN signals_history :
          /\ signals_history[i].signal_date <= end_dt
          /\ signals_history[i].execution_date <= end_dt

\* C24: the weekly loop always terminates: an iteration starts only while
\* the analysis date is not after the end of the run, and the analysis date
\* strictly increases on every iteration that does not break, skipped or
\* failed ones included, so the iterations are bounded by the weeks of the
\* run; the loop stops at the first iteration whose execution date is after
\* the end; no trade, snapshot or signal is dated after it.
C24_WeeklyLoopTerminates ==
    /\ [][C24_Step]_vars
    /\ []C24_NothingAfterEnd

\* The loop broke in its second iteration, the first one having been skipped
\* for missing data.
C24_Witness ==
    /\ bt_pc = "done" /\ outcome = "break"
    /\ week_count = 2
    /\ signals_history = << >>
    /\ get_next_trading_day(signal_date, 0) > end_dt

-----------------------------------------------------------------------------
(* Properties of the exit checks *)

\* C25: for a position whose first half has been sold the breakeven
\* condition fires exactly when price <= breakeven; it does not fire while
\* price > breakeven or before the first half is sold.
C25_BreakevenExit ==
    (call # NoCall /\ call.operation = "is_breakeven_hit") =>
        LET pos == positions[call.ticker]
        IN  (outcome = "True") <=>
                /\ pos.first_half_sold
                /\ Truthy(pos.breakeven)
                /\ Val(call.price) <= Val(pos.breakeven)

-----------------------------------------------------------------------------
(* Properties of the trade statistics *)

SellTrades == {i \in DOMAIN trades_history : trades_history[i].action = "SELL"}
WinningSells == {i \in SellTrades : trades_history[i].pnl[1] > 0}
LosingSells == {i \in SellTrades : trades_history[i].pnl[1] < 0}

RECURSIVE PnlOver(_)
PnlOver(S) ==
    IF S = {} THEN <<0, 1>>
    ELSE LET i == CHOOSE j \in S : TRUE
         IN  RatAdd(trades_history[i].pnl, PnlOver(S \ {i}))

\* What the statistics are, but for the win rate.
C26_OtherStatistics ==
    /\ trade_metrics.num_trades = Cardinality(SellTrades)
    /\ trade_metrics.profitable_trades = Cardinality(WinningSells)
    /\ LosingSells = {} => trade_metrics.profit_factor = <<0, 1>>
    /\ LosingSells # {} =>
          trade_metrics.profit_factor =
              RatDiv(PnlOver(WinningSells), RatMul(<<-1, 1>>, PnlOver(LosingSells)))
    /\ SellTrades = {} => trade_metrics = ZeroMetrics

\* C26 as stated: the statistics are computed from the SELL trades only, with
\* win_rate = count(pnl > 0) / count(SELL trades), profit_factor = sum of
\* positive pnl / |sum of negative pnl|, 0 when no SELL has a loss, and all
\* statistics 0 when there is no SELL trade.
C26_WinRateIsRatio ==
    bt_pc = "measured" =>
        /\ C26_OtherStatistics
        /\ SellTrades # {} =>
              trade_metrics.win_rate = Rat(Cardinality(WinningSells), Cardinality(SellTrades))

\* C26, amended: the same with win_rate a percentage,
\* win_rate = 100 * count(pnl > 0) / count(SELL trades).
C26_TradeStatistics ==
    bt_pc = "measured" =>
        /\ C26_OtherStatistics
        /\ SellTrades # {} =>
              trade_metrics.win_rate =
                  Rat(100 * Cardinality(WinningSells), Cardinality(SellTrades))

\* Statistics of a run with a winning and a losing SELL, and BUY trades.
C26_Witness ==
    /\ bt_pc = "measured"
    /\ WinningSells # {} /\ LosingSells # {}
    /\ Cardinality(SellTrades) < Len(trades_history)
    /\ trade_metrics.win_rate = <<50, 1>>

-----------------------------------------------------------------------------
(* Properties of the stop and the target of a position *)

\* The first target of a position: first_target once execute_approved_orders
\* set it, else the profit_target of the Position.
TargetOf(pos) == IF pos.first_target # None THEN pos.first_target ELSE pos.profit_target

-----------------------------------------------------------------------------
(* Properties of execute_trade as a whole *)

\* C28: execute_trade is atomic: a call either returns normally, or raises
\* with cash, positions and total_value exactly as before the call; a BUY
\* that passes the cash check returns normally.
C28_ExecuteTradeAtomic ==
    [][(ncalls' = ncalls + 1) =>
          /\ outcome' # "ok" => (snapshot' = snapshot /\ positions' = positions)
          /\ (/\ call'.operation = "BUY"
              /\ call'.quantity > 0
              /\ call'.price # None
              /\ call'.quantity * Val(call'.price) <= snapshot.cash_balance)
                 => outcome' = "ok"]_vars

-----------------------------------------------------------------------------
(* Properties of the trade log *)

\* The trades of the ticker of trade i that come before it in the log.
EarlierTrades(i) ==
    {j \in 1..(i - 1) : trades_history[j].ticker = trades_history[i].ticker}

Max(S) == CHOOSE x \in S : \A y \in S : y <= x

\* C29: in the trade log the trades of each ticker strictly alternate BUY,
\* SELL, BUY, ... starting with a BUY, and every SELL has the share count
\* of the BUY of that ticker just before it; once the PnL is computed every
\* SELL is matched with that one BUY.
C29_TradesAlternate ==
    \A i \in DOMAIN trades_history :
        LET trade == trades_history[i]
        IN  IF EarlierTrades(i) = {}
            THEN trade.action = "BUY"
            ELSE LET before == trades_history[Max(EarlierTrades(i))]
                 IN  /\ trade.action # before.action
                     /\ trade.action = "SELL" =>
                           /\ trade.shares = before.shares
                           /\ bt_pc = "settled" =>
                                 trade.pnl = RatSub(trade.net_amount, before.net_amount)

\* A ticker was bought, sold a week later and bought again, and the PnL of
\* the SELL is computed.
C29_Witness ==
    /\ bt_pc = "settled"
    /\ \E i \in DOMAIN trades_history :
          /\ trades_history[i].action = "BUY"
          /\ Cardinality(EarlierTrades(i)) = 2
          /\ trades_history[Max(EarlierTrades(i))].pnl # <<0, 1>>

-----------------------------------------------------------------------------
(* Properties of a batch of approved orders *)

\* C30: the summed cost of all BUY orders approved by one validate_signals
\* call does not exceed the available cash after the buffer.
C30_NoOverAllocation ==
    rm_pc = "validated" =>
        LET total == SumOver(ApprovedBuys, [k \in ApprovedBuys |-> validated_orders[k].cost])
        IN  RatLeq(RatOfInt(total), get_available_cash(snapshot))

Init == InitLedger

Next == NextLedger

Spec == Init /\ [][Next]_vars

====
